---- MODULE Spec2Model ----
(***************************************************************************)
(* TelescopeClientAscom: the ASCOM client of the Telescope Control plug-in *)
(* (plugins/TelescopeControl/src/clients/TelescopeClientAscom.cpp).        *)
(*                                                                         *)
(* The adapter is single threaded.  Every member function is modelled as a *)
(* sequence of steps, one step per access to the driver object, because    *)
(* the driver's exception signal is delivered synchronously from inside a  *)
(* driver call and runs handleDriverException before the call returns.     *)
(* Angles are integers in degrees (M_PI is 180 of these units).            *)
(***************************************************************************)
EXTENDS Integers, Sequences, FiniteSets, TLC

VARIABLES
    pc,                  \* position of the host thread inside the adapter
    op,                  \* member function being executed
    driver,              \* the QAxObject* member: "none" (0), "nullobj", "live"
    equinox,             \* the Equinox member
    dev,                 \* the device behind the driver: its Connected property
    clock,               \* the value getNow() returns
    timeToGetPosition,   \* member: next scheduled poll time
    interpolatedPosition,\* member: the retained samples, oldest first
    now,                 \* local of performCommunication
    serverTime,          \* local of performCommunication
    raHours,             \* local of performCommunication / telescopeGoto
    decDegrees,          \* local of performCommunication / telescopeGoto
    j2000Coordinates,    \* argument of telescopeGoto
    returned,            \* value the running isConnected() returns
    opCalls,             \* driver accesses the running call made on a live driver
    nullAccess,          \* the running call dereferenced driver while it was 0
    ascomError,          \* emissions of the ascomError signal: slot arguments, message
    coordReads,          \* clock values of the polls that read the coordinates
    sampleNows,          \* clock values of the polls that recorded a sample
    query                \* result of the last getJ2000EquatorialPos call made at this
                         \* clock value since the last poll

vars == <<pc, op, driver, equinox, dev, clock, timeToGetPosition,
          interpolatedPosition, now, serverTime, raHours, decDegrees,
          j2000Coordinates, returned, opCalls, nullAccess, ascomError, coordReads,
          sampleNows, query>>

(***************************************************************************)
(* Bounds of the model.                                                    *)
(***************************************************************************)
MaxClock == 5

(***************************************************************************)
(* Program constants and input sets.                                       *)
(***************************************************************************)
POSITION_REFRESH_INTERVAL == 2

M_PI == 180

PrecessionShift == 15

name == "scope"

RAHours == {0, 18}

DecDegrees == {45}

FaultCodes == {1, 2}

FaultSources == {"srcA"}

FaultDescs == {"descA"}

EquinoxValues == {"EquinoxJNow", "EquinoxJ2000"}

NoVec == [lng |-> 0, lat |-> 0]

NoQuery == [done |-> FALSE, result |-> NoVec]

(***************************************************************************)
(* StelUtils and StelNavigator collaborators.                              *)
(***************************************************************************)
\* longitude brought into (-M_PI, M_PI], the range of atan2
NormLng(a) == LET m == a % (2 * M_PI) IN IF m > M_PI THEN m - 2 * M_PI ELSE m

\* StelUtils::spheToRect: the direction with longitude lng and latitude lat
spheToRect(lng, lat) == [lng |-> NormLng(lng), lat |-> lat]

\* StelUtils::rectToSphe: <<lng, lat>> of a direction, lng = atan2(y, x)
rectToSphe(v) == <<v.lng, v.lat>>

\* StelNavigator::equinoxEquToJ2000: current-epoch direction to J2000
equinoxEquToJ2000(v) == [lng |-> NormLng(v.lng - PrecessionShift), lat |-> v.lat]

\* StelNavigator::j2000ToEquinoxEqu: J2000 direction to current epoch
j2000ToEquinoxEqu(v) == [lng |-> NormLng(v.lng + PrecessionShift), lat |-> v.lat]

Targets == {spheToRect(h * (M_PI \div 12), d * (M_PI \div 180)) : h \in RAHours, d \in DecDegrees}

(***************************************************************************)
(* InterpolatedPosition (member interpolatedPosition).                     *)
(***************************************************************************)
\* InterpolatedPosition::add: keep the two most recent samples
InterpolatedAdd(ip, pos, clientTime, srvTime) ==
    LET s == [pos |-> pos, clientTime |-> clientTime, serverTime |-> srvTime]
    IN IF Len(ip) < 2 THEN Append(ip, s) ELSE <<ip[2], s>>

\* InterpolatedPosition::get: estimate at instant t from the retained samples
InterpolatedGet(ip, t) ==
    IF Len(ip) = 0 THEN NoVec
    ELSE IF Len(ip) = 1 THEN ip[1].pos
    ELSE LET a == ip[1]
             b == ip[2]
         IN IF t >= b.clientTime \/ b.clientTime = a.clientTime THEN b.pos
            ELSE IF t <= a.clientTime THEN a.pos
            ELSE [lng |-> NormLng(a.pos.lng + ((NormLng(b.pos.lng - a.pos.lng) * (t - a.clientTime))
                                                  \div (b.clientTime - a.clientTime))),
                  lat |-> a.pos.lat + (((b.pos.lat - a.pos.lat) * (t - a.clientTime))
                                                  \div (b.clientTime - a.clientTime))]

(***************************************************************************)
(* Driver handle.                                                          *)
(***************************************************************************)
\* isInitialized(): driver && !driver->isNull()
isInitializedOf(d) == d = "live"

isInitialized == isInitializedOf(driver)

\* prepareCommunication()
prepareCommunication == IF ~isInitialized THEN FALSE ELSE TRUE

\* deleteDriver() that forgets to reset the member
deleteDriver_keepsHandle(d) == d

\* deleteDriver(): if (driver) { delete driver; driver = 0; }
deleteDriver(d) == IF d # "none" THEN "none" ELSE d

\* QString::arg(int): the decimal text of a fault code
NumText(code) == CASE code = 1 -> "1" [] code = 2 -> "2" [] OTHER -> "?"

\* a place marker %k of a QString
Marker(k) == [marker |-> k, text |-> ""]

\* QString::arg: replace the lowest numbered place marker still in the text
LowestMarker(msg) ==
    LET ms == {msg[i].marker : i \in 1..Len(msg)} \ {0}
    IN IF ms = {} THEN 0 ELSE CHOOSE k \in ms : \A m \in ms : k <= m

Arg(msg, a) ==
    LET k == LowestMarker(msg)
    IN [i \in 1..Len(msg) |->
          IF k # 0 /\ msg[i].marker = k THEN [marker |-> 0, text |-> a] ELSE msg[i]]

\* the fields of "%1: ASCOM driver error:\nCode: %2\nSource: %3\nDescription: %4"
ErrorTemplate == <<Marker(1), Marker(2), Marker(3), Marker(4)>>

\* the message handleDriverException builds
errorMessage(code, source, desc) ==
    Arg(Arg(Arg(ErrorTemplate, name), NumText(code)), desc)

\* the slot without its deleteDriver() call
handleDriverException_noDelete(code, source, desc) ==
    [driver |-> driver,
     ascomError |-> Append(ascomError, [code |-> code, source |-> source, desc |-> desc,
                                        message |-> errorMessage(code, source, desc)])]

\* handleDriverException: the members after the slot has run
handleDriverException(code, source, desc) ==
    [driver |-> deleteDriver(driver),
     ascomError |-> Append(ascomError, [code |-> code, source |-> source, desc |-> desc,
                                        message |-> errorMessage(code, source, desc)])]

FaultResults ==
    {handleDriverException(c, s, d) : c \in FaultCodes, s \in FaultSources, d \in FaultDescs}

(***************************************************************************)
(* Access to the driver object.                                            *)
(***************************************************************************)
\* Outcomes of one driver->property / setProperty / dynamicCall.
\*   ok    : the driver is live and answers devVal (AtPark, Tracking and the
\*           capability flags are whatever the driver reports at that read)
\*   fault : the driver is live and raises its exception signal; the slot
\*           handleDriverException runs before the call returns
\*   null  : driver is 0, the dereference is undefined and yields garbage
\*   crash : driver is 0, the dereference ends the process
DriverOutcomes(devVal, garbage) ==
    IF isInitialized
    THEN {[kind |-> "ok", val |-> devVal, driver |-> driver, ascomError |-> ascomError]}
         \cup {[kind |-> "fault", val |-> g, driver |-> h.driver, ascomError |-> h.ascomError] :
                   g \in garbage, h \in FaultResults}
    ELSE {[kind |-> k, val |-> g, driver |-> driver, ascomError |-> ascomError] :
                   k \in {"null", "crash"}, g \in garbage}

\* the bookkeeping every driver access shares
Access(o, c, v, next) ==
    /\ pc' = IF o.kind = "crash" THEN "crashed" ELSE next
    /\ opCalls' = IF o.kind \in {"ok", "fault"}
                  THEN Append(opCalls, [c |-> c, v |-> v]) ELSE opCalls
    /\ nullAccess' = (nullAccess \/ o.kind \in {"null", "crash"})
    /\ ascomError' = o.ascomError

memberVars == <<equinox, timeToGetPosition, interpolatedPosition>>
localVars == <<now, serverTime, raHours, decDegrees, j2000Coordinates, returned>>
ghostVars == <<coordReads, sampleNows, query>>

(***************************************************************************)
(* Constructor, lines 42-96.                                               *)
(***************************************************************************)
Init ==
    /\ pc = "c_setControl"
    /\ op = "ctor"
    /\ driver = "none"
    /\ equinox \in EquinoxValues
    /\ dev \in [connected : BOOLEAN]
    /\ clock = 0
    /\ timeToGetPosition = 0
    /\ interpolatedPosition = <<>>
    /\ now = 0
    /\ serverTime = 0
    /\ raHours = 0
    /\ decDegrees = 0
    /\ j2000Coordinates = NoVec
    /\ returned = FALSE
    /\ opCalls = <<>>
    /\ nullAccess = FALSE
    /\ ascomError = <<>>
    /\ coordReads = <<>>
    /\ sampleNows = <<>>
    /\ query = NoQuery

\* driver = new QAxObject(this); setControl; if (driver->isNull()) return; connect
c_setControl ==
    /\ pc = "c_setControl"
    /\ \E created \in BOOLEAN :
          /\ driver' = IF created THEN "live" ELSE "nullobj"
          /\ pc' = IF created THEN "c_canSlew" ELSE "ret"
    /\ UNCHANGED <<op, dev, clock, opCalls, nullAccess, ascomError>>
    /\ UNCHANGED <<memberVars, localVars, ghostVars>>

\* bool canSlew = driver->property(P_CAN_SLEW).toBool();
c_canSlew ==
    /\ pc = "c_canSlew"
    /\ \E flag \in BOOLEAN : \E o \in DriverOutcomes(flag, BOOLEAN) :
          /\ Access(o, "get:CanSlew", o.val, "c_setConnected")
          /\ driver' = o.driver
    /\ UNCHANGED <<op, dev, clock>>
    /\ UNCHANGED <<memberVars, localVars, ghostVars>>

\* driver->setProperty(P_CONNECTED, true);
c_setConnected ==
    /\ pc = "c_setConnected"
    /\ \E o \in DriverOutcomes(FALSE, {FALSE}), linked \in BOOLEAN :
          /\ Access(o, "set:Connected", TRUE, "c_getConnected")
          /\ driver' = o.driver
          /\ dev' = IF o.kind = "ok" THEN [dev EXCEPT !.connected = linked] ELSE dev
    /\ UNCHANGED <<op, clock>>
    /\ UNCHANGED <<memberVars, localVars, ghostVars>>

\* connectionAttemptSucceeded = driver->property(P_CONNECTED); if (!..) deleteDriver();
c_getConnected ==
    /\ pc = "c_getConnected"
    /\ \E o \in DriverOutcomes(dev.connected, BOOLEAN) :
          /\ Access(o, "get:Connected", o.val, "c_parked")
          /\ driver' = IF ~o.val THEN deleteDriver(o.driver) ELSE o.driver
    /\ UNCHANGED <<op, dev, clock>>
    /\ UNCHANGED <<memberVars, localVars, ghostVars>>

\* bool isParked = driver->property(P_PARKED).toBool(); if (isParked)
c_parked ==
    /\ pc = "c_parked"
    /\ \E flag \in BOOLEAN : \E o \in DriverOutcomes(flag, BOOLEAN) :
          /\ Access(o, "get:AtPark", o.val, IF o.val THEN "c_canUnpark" ELSE "c_countdown")
          /\ driver' = o.driver
    /\ UNCHANGED <<op, dev, clock>>
    /\ UNCHANGED <<memberVars, localVars, ghostVars>>

\* the parked check of the constructor without its deleteDriver() call
c_canUnpark_noDelete ==
    /\ pc = "c_canUnpark"
    /\ \E flag \in BOOLEAN : \E o \in DriverOutcomes(flag, BOOLEAN) :
          /\ Access(o, "get:CanUnpark", o.val, "c_countdown")
          /\ driver' = o.driver
    /\ UNCHANGED <<op, dev, clock>>
    /\ UNCHANGED <<memberVars, localVars, ghostVars>>

\* bool canUnpark = driver->property(P_CAN_UNPARK).toBool(); if (!canUnpark) deleteDriver();
c_canUnpark ==
    /\ pc = "c_canUnpark"
    /\ \E flag \in BOOLEAN : \E o \in DriverOutcomes(flag, BOOLEAN) :
          /\ Access(o, "get:CanUnpark", o.val, "c_countdown")
          /\ driver' = IF ~o.val THEN deleteDriver(o.driver) ELSE o.driver
    /\ UNCHANGED <<op, dev, clock>>
    /\ UNCHANGED <<memberVars, localVars, ghostVars>>

\* the countdown started without the interval
c_countdown_noInterval ==
    /\ pc = "c_countdown"
    /\ timeToGetPosition' = clock
    /\ pc' = "ret"
    /\ UNCHANGED <<op, driver, dev, clock, opCalls, nullAccess, ascomError>>
    /\ UNCHANGED <<equinox, interpolatedPosition, localVars, ghostVars>>

\* timeToGetPosition = getNow() + POSITION_REFRESH_INTERVAL;
c_countdown ==
    /\ pc = "c_countdown"
    /\ timeToGetPosition' = clock + POSITION_REFRESH_INTERVAL
    /\ pc' = "ret"
    /\ UNCHANGED <<op, driver, dev, clock, opCalls, nullAccess, ascomError>>
    /\ UNCHANGED <<equinox, interpolatedPosition, localVars, ghostVars>>

Constructor ==
    \/ c_setControl
    \/ c_canSlew
    \/ c_setConnected
    \/ c_getConnected
    \/ c_parked
    \/ c_canUnpark
    \/ c_countdown

(***************************************************************************)
(* Return to the host, the clock and the device.                           *)
(***************************************************************************)
\* the running member function returns; its locals go out of scope
Return ==
    /\ pc = "ret"
    /\ pc' = "idle"
    /\ op' = "none"
    /\ opCalls' = <<>>
    /\ nullAccess' = FALSE
    /\ now' = 0
    /\ serverTime' = 0
    /\ raHours' = 0
    /\ decDegrees' = 0
    /\ j2000Coordinates' = NoVec
    /\ returned' = FALSE
    /\ UNCHANGED <<driver, dev, clock, ascomError, memberVars, ghostVars>>

\* getNow() advances between two calls of the host; one call of the adapter
\* is taken to see one clock value
Tick ==
    /\ pc = "idle"
    /\ clock < MaxClock
    /\ clock' = clock + 1
    /\ query' = NoQuery
    /\ UNCHANGED <<pc, op, driver, dev, opCalls, nullAccess, ascomError>>
    /\ UNCHANGED <<memberVars, localVars, coordReads, sampleNows>>

\* between two calls of the host the device drops or regains its link
DeviceChange ==
    /\ pc = "idle"
    /\ dev' = [dev EXCEPT !.connected = ~dev.connected]
    /\ UNCHANGED <<pc, op, driver, clock, opCalls, nullAccess, ascomError>>
    /\ UNCHANGED <<memberVars, localVars, ghostVars>>

\* the driver raises its exception signal while the host is between calls
HandleFault ==
    /\ pc = "idle"
    /\ isInitialized
    /\ \E h \in FaultResults :
          /\ driver' = h.driver
          /\ ascomError' = h.ascomError
    /\ UNCHANGED <<pc, op, dev, clock, opCalls, nullAccess>>
    /\ UNCHANGED <<memberVars, localVars, ghostVars>>

(***************************************************************************)
(* isConnected(), lines 117-124, called by the host.                       *)
(***************************************************************************)
\* isConnected() that takes an initialized session to be connected
isConnected_assumesLink ==
    /\ pc = "idle"
    /\ op' = "isConnected"
    /\ pc' = "ret"
    /\ returned' = isInitialized
    /\ UNCHANGED <<driver, opCalls, nullAccess, ascomError, dev, clock>>
    /\ UNCHANGED <<memberVars, now, serverTime, raHours, decDegrees, j2000Coordinates, ghostVars>>

\* if (!isInitialized()) return false; return driver->property(P_CONNECTED).toBool();
isConnected ==
    /\ pc = "idle"
    /\ op' = "isConnected"
    /\ IF ~isInitialized
       THEN /\ pc' = "ret"
            /\ returned' = FALSE
            /\ UNCHANGED <<driver, opCalls, nullAccess, ascomError>>
       ELSE \E o \in DriverOutcomes(dev.connected, BOOLEAN) :
               /\ Access(o, "get:Connected", o.val, "ret")
               /\ returned' = o.val
               /\ driver' = o.driver
    /\ UNCHANGED <<dev, clock>>
    /\ UNCHANGED <<memberVars, now, serverTime, raHours, decDegrees, j2000Coordinates, ghostVars>>

(***************************************************************************)
(* getJ2000EquatorialPos(), lines 126-131, called by the host.             *)
(***************************************************************************)
\* a position query that consumes the oldest sample
getJ2000EquatorialPos_consuming ==
    /\ pc = "idle"
    /\ query' = [done |-> TRUE,
                 result |-> InterpolatedGet(interpolatedPosition,
                                            clock - POSITION_REFRESH_INTERVAL)]
    /\ interpolatedPosition' = IF Len(interpolatedPosition) > 1
                               THEN Tail(interpolatedPosition) ELSE interpolatedPosition
    /\ UNCHANGED <<pc, op, driver, dev, clock, opCalls, nullAccess, ascomError>>
    /\ UNCHANGED <<equinox, timeToGetPosition, localVars, coordReads, sampleNows>>

\* const qint64 now = getNow() - POSITION_REFRESH_INTERVAL; return interpolatedPosition.get(now);
getJ2000EquatorialPos ==
    /\ pc = "idle"
    /\ query' = [done |-> TRUE,
                 result |-> InterpolatedGet(interpolatedPosition,
                                            clock - POSITION_REFRESH_INTERVAL)]
    /\ UNCHANGED <<pc, op, driver, dev, clock, opCalls, nullAccess, ascomError>>
    /\ UNCHANGED <<memberVars, localVars, coordReads, sampleNows>>

(***************************************************************************)
(* performCommunication(), lines 141-199.                                  *)
(***************************************************************************)
\* a poll that re-opens the driver of an uninitialized session
p_start_reopens ==
    /\ pc = "idle"
    /\ op' = "performCommunication"
    /\ pc' = "p_isConnected"
    /\ driver' = "live"
    /\ UNCHANGED <<dev, clock, opCalls, nullAccess, ascomError>>
    /\ UNCHANGED <<memberVars, localVars, ghostVars>>

\* if (!isInitialized()) return;
p_start ==
    /\ pc = "idle"
    /\ op' = "performCommunication"
    /\ pc' = IF ~isInitialized THEN "ret" ELSE "p_isConnected"
    /\ UNCHANGED <<driver, dev, clock, opCalls, nullAccess, ascomError>>
    /\ UNCHANGED <<memberVars, localVars, ghostVars>>

\* if (!isConnected())
p_isConnected ==
    /\ pc = "p_isConnected"
    /\ IF ~isInitialized
       THEN /\ pc' = "p_setConnected"
            /\ UNCHANGED <<driver, opCalls, nullAccess, ascomError>>
       ELSE \E o \in DriverOutcomes(dev.connected, BOOLEAN) :
               /\ Access(o, "get:Connected", o.val,
                         IF o.val THEN "p_parked" ELSE "p_setConnected")
               /\ driver' = o.driver
    /\ UNCHANGED <<op, dev, clock>>
    /\ UNCHANGED <<memberVars, localVars, ghostVars>>

\* driver->setProperty(P_CONNECTED, true);
p_setConnected ==
    /\ pc = "p_setConnected"
    /\ \E o \in DriverOutcomes(FALSE, {FALSE}), linked \in BOOLEAN :
          /\ Access(o, "set:Connected", TRUE, "p_getConnected")
          /\ driver' = o.driver
          /\ dev' = IF o.kind = "ok" THEN [dev EXCEPT !.connected = linked] ELSE dev
    /\ UNCHANGED <<op, clock>>
    /\ UNCHANGED <<memberVars, localVars, ghostVars>>

\* the connection retry of the poll without its return on failure
p_getConnected_unchecked ==
    /\ pc = "p_getConnected"
    /\ \E o \in DriverOutcomes(dev.connected, BOOLEAN) :
          /\ Access(o, "get:Connected", o.val, "p_parked")
          /\ driver' = o.driver
    /\ UNCHANGED <<op, dev, clock>>
    /\ UNCHANGED <<memberVars, localVars, ghostVars>>

\* connectionAttemptSucceeded = driver->property(P_CONNECTED); if (!..) return;
p_getConnected ==
    /\ pc = "p_getConnected"
    /\ \E o \in DriverOutcomes(dev.connected, BOOLEAN) :
          /\ Access(o, "get:Connected", o.val, IF o.val THEN "p_parked" ELSE "ret")
          /\ driver' = o.driver
    /\ UNCHANGED <<op, dev, clock>>
    /\ UNCHANGED <<memberVars, localVars, ghostVars>>

\* the poll without its return on a parked device
p_parked_ignored ==
    /\ pc = "p_parked"
    /\ \E flag \in BOOLEAN : \E o \in DriverOutcomes(flag, BOOLEAN) :
          /\ Access(o, "get:AtPark", o.val, "p_now")
          /\ driver' = o.driver
    /\ UNCHANGED <<op, dev, clock>>
    /\ UNCHANGED <<memberVars, localVars, ghostVars>>

\* bool isParked = driver->property(P_PARKED).toBool(); if (isParked) return;
p_parked ==
    /\ pc = "p_parked"
    /\ \E flag \in BOOLEAN : \E o \in DriverOutcomes(flag, BOOLEAN) :
          /\ Access(o, "get:AtPark", o.val, IF o.val THEN "ret" ELSE "p_now")
          /\ driver' = o.driver
    /\ UNCHANGED <<op, dev, clock>>
    /\ UNCHANGED <<memberVars, localVars, ghostVars>>

\* the poll without its due check
p_now_alwaysDue ==
    /\ pc = "p_now"
    /\ now' = clock
    /\ pc' = "p_ra"
    /\ timeToGetPosition' = clock + POSITION_REFRESH_INTERVAL
    /\ UNCHANGED <<op, driver, dev, clock, opCalls, nullAccess, ascomError>>
    /\ UNCHANGED <<equinox, interpolatedPosition, ghostVars>>
    /\ UNCHANGED <<serverTime, raHours, decDegrees, j2000Coordinates, returned>>

\* the due check without the rescheduling of the next poll
p_now_noReschedule ==
    /\ pc = "p_now"
    /\ now' = clock
    /\ pc' = IF clock < timeToGetPosition THEN "ret" ELSE "p_ra"
    /\ UNCHANGED <<op, driver, dev, clock, opCalls, nullAccess, ascomError>>
    /\ UNCHANGED <<memberVars, ghostVars>>
    /\ UNCHANGED <<serverTime, raHours, decDegrees, j2000Coordinates, returned>>

\* now = getNow(); if (now < timeToGetPosition) return; else timeToGetPosition = now + INTERVAL;
p_now ==
    /\ pc = "p_now"
    /\ now' = clock
    /\ IF clock < timeToGetPosition
       THEN /\ pc' = "ret"
            /\ UNCHANGED timeToGetPosition
       ELSE /\ pc' = "p_ra"
            /\ timeToGetPosition' = clock + POSITION_REFRESH_INTERVAL
    /\ UNCHANGED <<op, driver, dev, clock, opCalls, nullAccess, ascomError>>
    /\ UNCHANGED <<equinox, interpolatedPosition, ghostVars>>
    /\ UNCHANGED <<serverTime, raHours, decDegrees, j2000Coordinates, returned>>

\* serverTime = getNow(); raHours = driver->property(P_RA).toDouble();
p_ra ==
    /\ pc = "p_ra"
    /\ serverTime' = clock
    /\ \E o \in DriverOutcomes(0, RAHours), reading \in RAHours :
          LET r == IF o.kind = "ok" THEN reading ELSE o.val
          IN /\ Access(o, "get:RightAscension", r, "p_dec")
             /\ driver' = o.driver
             /\ raHours' = r
             /\ coordReads' = IF o.kind \in {"ok", "fault"}
                              THEN Append(coordReads, now) ELSE coordReads
    /\ UNCHANGED <<op, dev, clock, memberVars>>
    /\ UNCHANGED <<now, decDegrees, j2000Coordinates, returned, sampleNows, query>>

\* decDegrees = driver->property(P_DEC).toDouble();
p_dec ==
    /\ pc = "p_dec"
    /\ \E o \in DriverOutcomes(0, DecDegrees), reading \in DecDegrees :
          LET r == IF o.kind = "ok" THEN reading ELSE o.val
          IN /\ Access(o, "get:Declination", r, "p_add")
             /\ driver' = o.driver
             /\ decDegrees' = r
    /\ UNCHANGED <<op, dev, clock, memberVars, ghostVars>>
    /\ UNCHANGED <<now, serverTime, raHours, j2000Coordinates, returned>>

\* the stored vector with the epoch conversion left out
SampleOf_unconverted(ra, dec) == spheToRect(ra * (M_PI \div 12), dec * (M_PI \div 180))

\* the vector performCommunication stores for a reading, lines 184-196
SampleOf(ra, dec) ==
    LET raRadians == ra * (M_PI \div 12)
        decRadians == dec * (M_PI \div 180)
        coordinates == spheToRect(raRadians, decRadians)
    IN IF equinox = "EquinoxJNow" THEN equinoxEquToJ2000(coordinates) ELSE coordinates

\* interpolatedPosition.add(j2000Coordinates, getNow(), serverTime);
p_add ==
    /\ pc = "p_add"
    /\ interpolatedPosition' = InterpolatedAdd(interpolatedPosition,
                                               SampleOf(raHours, decDegrees), clock, serverTime)
    /\ sampleNows' = Append(sampleNows, now)
    /\ query' = NoQuery
    /\ pc' = "ret"
    /\ UNCHANGED <<op, driver, dev, clock, opCalls, nullAccess, ascomError>>
    /\ UNCHANGED <<equinox, timeToGetPosition, localVars, coordReads>>

performCommunication ==
    \/ p_start
    \/ p_isConnected
    \/ p_setConnected
    \/ p_getConnected
    \/ p_parked
    \/ p_now
    \/ p_ra
    \/ p_dec
    \/ p_add

(***************************************************************************)
(* telescopeGoto(), lines 201-299.                                         *)
(***************************************************************************)
\* if (!isInitialized()) return;
g_start ==
    /\ pc = "idle"
    /\ op' = "telescopeGoto"
    /\ \E t \in Targets : j2000Coordinates' = t
    /\ pc' = IF ~isInitialized THEN "ret" ELSE "g_isConnected"
    /\ UNCHANGED <<driver, dev, clock, opCalls, nullAccess, ascomError>>
    /\ UNCHANGED <<memberVars, now, serverTime, raHours, decDegrees, returned, ghostVars>>

\* if (!isConnected())
g_isConnected ==
    /\ pc = "g_isConnected"
    /\ IF ~isInitialized
       THEN /\ pc' = "g_setConnected"
            /\ UNCHANGED <<driver, opCalls, nullAccess, ascomError>>
       ELSE \E o \in DriverOutcomes(dev.connected, BOOLEAN) :
               /\ Access(o, "get:Connected", o.val,
                         IF o.val THEN "g_parked" ELSE "g_setConnected")
               /\ driver' = o.driver
    /\ UNCHANGED <<op, dev, clock>>
    /\ UNCHANGED <<memberVars, localVars, ghostVars>>

\* driver->setProperty(P_CONNECTED, true);
g_setConnected ==
    /\ pc = "g_setConnected"
    /\ \E o \in DriverOutcomes(FALSE, {FALSE}), linked \in BOOLEAN :
          /\ Access(o, "set:Connected", TRUE, "g_getConnected")
          /\ driver' = o.driver
          /\ dev' = IF o.kind = "ok" THEN [dev EXCEPT !.connected = linked] ELSE dev
    /\ UNCHANGED <<op, clock>>
    /\ UNCHANGED <<memberVars, localVars, ghostVars>>

\* connectionAttemptSucceeded = driver->property(P_CONNECTED); if (!..) return;
g_getConnected ==
    /\ pc = "g_getConnected"
    /\ \E o \in DriverOutcomes(dev.connected, BOOLEAN) :
          /\ Access(o, "get:Connected", o.val, IF o.val THEN "g_parked" ELSE "ret")
          /\ driver' = o.driver
    /\ UNCHANGED <<op, dev, clock>>
    /\ UNCHANGED <<memberVars, localVars, ghostVars>>

\* bool isParked = driver->property(P_PARKED).toBool(); if (isParked)
g_parked ==
    /\ pc = "g_parked"
    /\ \E flag \in BOOLEAN : \E o \in DriverOutcomes(flag, BOOLEAN) :
          /\ Access(o, "get:AtPark", o.val, IF o.val THEN "g_canUnpark" ELSE "g_tracking")
          /\ driver' = o.driver
    /\ UNCHANGED <<op, dev, clock>>
    /\ UNCHANGED <<memberVars, localVars, ghostVars>>

\* the parked branch without its Unpark call
g_canUnpark_noUnpark ==
    /\ pc = "g_canUnpark"
    /\ \E flag \in BOOLEAN : \E o \in DriverOutcomes(flag, BOOLEAN) :
          /\ Access(o, "get:CanUnpark", o.val, IF o.val THEN "g_tracking" ELSE "ret")
          /\ driver' = o.driver
    /\ UNCHANGED <<op, dev, clock>>
    /\ UNCHANGED <<memberVars, localVars, ghostVars>>

\* the parked branch without its return
g_canUnpark_noReturn ==
    /\ pc = "g_canUnpark"
    /\ \E flag \in BOOLEAN : \E o \in DriverOutcomes(flag, BOOLEAN) :
          /\ Access(o, "get:CanUnpark", o.val, IF o.val THEN "g_unpark" ELSE "g_tracking")
          /\ driver' = o.driver
    /\ UNCHANGED <<op, dev, clock>>
    /\ UNCHANGED <<memberVars, localVars, ghostVars>>

\* bool canUnpark = driver->property(P_CAN_UNPARK).toBool(); if (canUnpark) .. else return;
g_canUnpark ==
    /\ pc = "g_canUnpark"
    /\ \E flag \in BOOLEAN : \E o \in DriverOutcomes(flag, BOOLEAN) :
          /\ Access(o, "get:CanUnpark", o.val, IF o.val THEN "g_unpark" ELSE "ret")
          /\ driver' = o.driver
    /\ UNCHANGED <<op, dev, clock>>
    /\ UNCHANGED <<memberVars, localVars, ghostVars>>

\* driver->dynamicCall(M_UNPARK);
g_unpark ==
    /\ pc = "g_unpark"
    /\ \E o \in DriverOutcomes(FALSE, {FALSE}) :
          /\ Access(o, "call:Unpark", TRUE, "g_tracking")
          /\ driver' = o.driver
    /\ UNCHANGED <<op, dev, clock>>
    /\ UNCHANGED <<memberVars, localVars, ghostVars>>

\* bool isTracking = driver->property(P_TRACKING).toBool(); if (!isTracking)
g_tracking ==
    /\ pc = "g_tracking"
    /\ \E flag \in BOOLEAN : \E o \in DriverOutcomes(flag, BOOLEAN) :
          /\ Access(o, "get:Tracking", o.val, IF o.val THEN "g_equinox" ELSE "g_canTrack")
          /\ driver' = o.driver
    /\ UNCHANGED <<op, dev, clock>>
    /\ UNCHANGED <<memberVars, localVars, ghostVars>>

\* bool canTrack = driver->property(P_CAN_TRACK).toBool(); if (canTrack) .. else return;
g_canTrack ==
    /\ pc = "g_canTrack"
    /\ \E flag \in BOOLEAN : \E o \in DriverOutcomes(flag, BOOLEAN) :
          /\ Access(o, "get:CanSetTracking", o.val, IF o.val THEN "g_setTracking" ELSE "ret")
          /\ driver' = o.driver
    /\ UNCHANGED <<op, dev, clock>>
    /\ UNCHANGED <<memberVars, localVars, ghostVars>>

\* driver->setProperty(P_TRACKING, true);
g_setTracking ==
    /\ pc = "g_setTracking"
    /\ \E o \in DriverOutcomes(FALSE, {FALSE}) :
          /\ Access(o, "set:Tracking", TRUE, "g_getTracking")
          /\ driver' = o.driver
    /\ UNCHANGED <<op, dev, clock>>
    /\ UNCHANGED <<memberVars, localVars, ghostVars>>

\* the tracking re-read without its return on failure
g_getTracking_unchecked ==
    /\ pc = "g_getTracking"
    /\ \E flag \in BOOLEAN : \E o \in DriverOutcomes(flag, BOOLEAN) :
          /\ Access(o, "get:Tracking", o.val, "g_equinox")
          /\ driver' = o.driver
    /\ UNCHANGED <<op, dev, clock>>
    /\ UNCHANGED <<memberVars, localVars, ghostVars>>

\* isTracking = driver->property(P_TRACKING).toBool(); if (!isTracking) return;
g_getTracking ==
    /\ pc = "g_getTracking"
    /\ \E flag \in BOOLEAN : \E o \in DriverOutcomes(flag, BOOLEAN) :
          /\ Access(o, "get:Tracking", o.val, IF o.val THEN "g_equinox" ELSE "ret")
          /\ driver' = o.driver
    /\ UNCHANGED <<op, dev, clock>>
    /\ UNCHANGED <<memberVars, localVars, ghostVars>>

\* the vector telescopeGoto sends for a target, lines 267-274
TargetOf(v) == IF equinox = "EquinoxJNow" THEN equinoxEquToJ2000(v) ELSE v

\* targetCoordinates; rectToSphe; raHours = raRadians * (12 / M_PI); decDegrees = ..
g_equinox ==
    /\ pc = "g_equinox"
    /\ LET targetCoordinates == TargetOf(j2000Coordinates)
           raRadians == rectToSphe(targetCoordinates)[1]
           decRadians == rectToSphe(targetCoordinates)[2]
       IN /\ raHours' = (raRadians * 12) \div M_PI
          /\ decDegrees' = (decRadians * 180) \div M_PI
    /\ pc' = "g_canSlewAsync"
    /\ UNCHANGED <<op, driver, dev, clock, opCalls, nullAccess, ascomError>>
    /\ UNCHANGED <<memberVars, now, serverTime, j2000Coordinates, returned, ghostVars>>

\* bool canSlewAsynchronously = driver->property(P_CAN_SLEW_ASYNCHRONOUSLY).toBool();
g_canSlewAsync ==
    /\ pc = "g_canSlewAsync"
    /\ \E flag \in BOOLEAN : \E o \in DriverOutcomes(flag, BOOLEAN) :
          /\ Access(o, "get:CanSlewAsync", o.val, IF o.val THEN "g_slewAsync" ELSE "g_canSlew")
          /\ driver' = o.driver
    /\ UNCHANGED <<op, dev, clock>>
    /\ UNCHANGED <<memberVars, localVars, ghostVars>>

\* the asynchronous slew running on into the synchronous branch
g_slewAsync_fallsThrough ==
    /\ pc = "g_slewAsync"
    /\ \E o \in DriverOutcomes(FALSE, {FALSE}) :
          /\ Access(o, "call:SlewToCoordinatesAsync", <<raHours, decDegrees>>, "g_canSlew")
          /\ driver' = o.driver
    /\ UNCHANGED <<op, dev, clock>>
    /\ UNCHANGED <<memberVars, localVars, ghostVars>>

\* driver->dynamicCall(M_SLEW_ASYNCHRONOUSLY, raHours, decDegrees);
g_slewAsync ==
    /\ pc = "g_slewAsync"
    /\ \E o \in DriverOutcomes(FALSE, {FALSE}) :
          /\ Access(o, "call:SlewToCoordinatesAsync", <<raHours, decDegrees>>, "ret")
          /\ driver' = o.driver
    /\ UNCHANGED <<op, dev, clock>>
    /\ UNCHANGED <<memberVars, localVars, ghostVars>>

\* bool canSlew = driver->property(P_CAN_SLEW).toBool(); if (canSlew)
g_canSlew ==
    /\ pc = "g_canSlew"
    /\ \E flag \in BOOLEAN : \E o \in DriverOutcomes(flag, BOOLEAN) :
          /\ Access(o, "get:CanSlew", o.val, IF o.val THEN "g_slew" ELSE "ret")
          /\ driver' = o.driver
    /\ UNCHANGED <<op, dev, clock>>
    /\ UNCHANGED <<memberVars, localVars, ghostVars>>

\* driver->dynamicCall(M_SLEW, raHours, decDegrees);
g_slew ==
    /\ pc = "g_slew"
    /\ \E o \in DriverOutcomes(FALSE, {FALSE}) :
          /\ Access(o, "call:SlewToCoordinates", <<raHours, decDegrees>>, "ret")
          /\ driver' = o.driver
    /\ UNCHANGED <<op, dev, clock>>
    /\ UNCHANGED <<memberVars, localVars, ghostVars>>

telescopeGoto ==
    \/ g_start
    \/ g_isConnected
    \/ g_setConnected
    \/ g_getConnected
    \/ g_parked
    \/ g_canUnpark
    \/ g_unpark
    \/ g_tracking
    \/ g_canTrack
    \/ g_setTracking
    \/ g_getTracking
    \/ g_equinox
    \/ g_canSlewAsync
    \/ g_slewAsync
    \/ g_canSlew
    \/ g_slew

(***************************************************************************)
(* The adapter in its host.                                                *)
(***************************************************************************)
Next ==
    \/ Constructor
    \/ isConnected
    \/ getJ2000EquatorialPos
    \/ performCommunication
    \/ telescopeGoto
    \/ Return
    \/ Tick
    \/ DeviceChange
    \/ HandleFault

Spec == Init /\ [][Next]_vars

TypeOK ==
    /\ driver \in {"none", "nullobj", "live"}
    /\ clock \in 0..MaxClock
    /\ Len(interpolatedPosition) <= 2
    /\ Len(ascomError) <= 1

(***************************************************************************)
(* Vocabulary of the properties.                                           *)
(***************************************************************************)
\* handleDriverException has run
Faulted == Len(ascomError) > 0

\* positions of the driver access c in the running call
Pos(c) == {i \in 1..Len(opCalls) : opCalls[i].c = c}

\* the running call read the boolean property c with value b
Reads(c, b) == \E i \in Pos(c) : opCalls[i].v = b

\* the first read of property c in the running call returned b
FirstRead(c, b) ==
    \E i \in Pos(c) : opCalls[i].v = b /\ \A j \in Pos(c) : i <= j

SlewCalls == Pos("call:SlewToCoordinates") \cup Pos("call:SlewToCoordinatesAsync")

MotionCalls == SlewCalls \cup Pos("set:Tracking") \cup Pos("call:Unpark")

\* the direction a slew call's arguments (hours, degrees) denote
DirectionOf(args) == spheToRect(args[1] * (M_PI \div 12), args[2] * (M_PI \div 180))

(***************************************************************************)
(* Properties.                                                             *)
(***************************************************************************)
\* C1: once handleDriverException has run, isInitialized() is false for
\* ever, and a call of isConnected, prepareCommunication,
\* performCommunication or telescopeGoto that starts afterwards returns at
\* once without any access to the driver; the driver is never re-created.
C1_FaultIsTerminal ==
    [][Faulted =>
         /\ ~isInitialized /\ ~isInitialized' /\ ~prepareCommunication
         /\ driver' = "none"
         /\ pc = "idle" => (pc' \in {"idle", "ret"} /\ opCalls' = <<>> /\ ~nullAccess')]_vars

\* a telescopeGoto started after a fault has returned without touching the driver
C1_Witness ==
    /\ Faulted
    /\ pc = "ret"
    /\ op = "telescopeGoto"
    /\ opCalls = <<>>
    /\ ~nullAccess

\* C2: a fault may arrive between two driver calls of one running
\* telescopeGoto or performCommunication, and the interrupted call then
\* makes no further access to the released driver handle.
C2_NoAccessAfterRelease ==
    op \in {"telescopeGoto", "performCommunication"} => ~nullAccess

\* C3: in a telescopeGoto that finds the device parked, every Tracking set
\* comes after an Unpark call, and if the device was also found not
\* tracking every slew call comes after a Tracking set that comes after an
\* Unpark call.
C3_UnparkTrackSlewOrder ==
    (op = "telescopeGoto" /\ Reads("get:AtPark", TRUE)) =>
        /\ \A j \in Pos("set:Tracking") : \E k \in Pos("call:Unpark") : k < j
        /\ FirstRead("get:Tracking", FALSE) =>
              \A i \in SlewCalls :
                 \E j \in Pos("set:Tracking") :
                    j < i /\ \E k \in Pos("call:Unpark") : k < j

\* a goto on a parked, not tracking device that unparked, tracked and slewed
C3_Witness ==
    /\ op = "telescopeGoto"
    /\ pc = "ret"
    /\ Reads("get:AtPark", TRUE)
    /\ FirstRead("get:Tracking", FALSE)
    /\ \E i \in SlewCalls : \E j \in Pos("set:Tracking") :
          j < i /\ \E k \in Pos("call:Unpark") : k < j

\* C4: the constructor issues no Unpark, Tracking set or slew at all, and a
\* telescopeGoto to which the driver reports AtPark true and CanUnpark
\* false issues none of them either.
C4_ParkedUnparkableIsInert ==
    /\ op = "ctor" => MotionCalls = {}
    /\ (op = "telescopeGoto" /\ Reads("get:AtPark", TRUE) /\ Reads("get:CanUnpark", FALSE))
          => MotionCalls = {}

\* a goto that found the device parked and unparkable has returned
C4_Witness ==
    /\ op = "telescopeGoto"
    /\ pc = "ret"
    /\ ~Faulted
    /\ Reads("get:AtPark", TRUE)
    /\ Reads("get:CanUnpark", FALSE)

\* C5: two polls that read the coordinates, and two polls that record a
\* sample, are at least POSITION_REFRESH_INTERVAL apart in clock value.
C5_OneReadPerInterval ==
    /\ \A i, j \in 1..Len(coordReads) :
          i < j => coordReads[j] - coordReads[i] >= POSITION_REFRESH_INTERVAL
    /\ \A i, j \in 1..Len(sampleNows) :
          i < j => sampleNows[j] - sampleNows[i] >= POSITION_REFRESH_INTERVAL

\* two polls have read the coordinates and recorded a sample
C5_Witness == Len(coordReads) >= 2 /\ Len(sampleNows) >= 2

\* C6: when the constructor's connection attempt fails, the driver is
\* released and the constructor makes no driver access after the release.
C6_NoAccessAfterFailedConnect ==
    (op = "ctor" /\ ~Faulted /\ Reads("get:Connected", FALSE)) =>
        (~isInitialized /\ ~nullAccess)

\* C7: the emitted message carries the telescope name, the fault code, the
\* source argument and the description argument in its four fields, with
\* no place marker left.
C7_MessageFields ==
    \A i \in 1..Len(ascomError) :
       LET e == ascomError[i]
       IN /\ \A k \in 1..4 : e.message[k].marker = 0
          /\ e.message[1].text = name
          /\ e.message[2].text = NumText(e.code)
          /\ e.message[3].text = e.source
          /\ e.message[4].text = e.desc

\* C8: the direction a slew call receives is the host's J2000 target
\* converted to the current epoch in EquinoxJNow mode, and the target
\* itself in EquinoxJ2000 mode.
C8_SlewFrame ==
    op = "telescopeGoto" =>
        \A i \in SlewCalls :
           DirectionOf(opCalls[i].v) =
              IF equinox = "EquinoxJNow" THEN j2000ToEquinoxEqu(j2000Coordinates)
                                         ELSE j2000Coordinates

\* C9: a recorded sample is the raw reading brought to J2000: converting it
\* back to the current epoch gives the raw direction in EquinoxJNow mode,
\* it is the raw direction in EquinoxJ2000 mode, and a position query
\* returns what the interpolation of the samples gives, unconverted.
C9_SamplesAreJ2000 ==
    [][/\ sampleNows' # sampleNows =>
            LET s == interpolatedPosition'[Len(interpolatedPosition')]
                raw == spheToRect(raHours * (M_PI \div 12), decDegrees * (M_PI \div 180))
            IN IF equinox = "EquinoxJNow" THEN j2000ToEquinoxEqu(s.pos) = raw
                                          ELSE s.pos = raw
       /\ query'.done =>
            query'.result = InterpolatedGet(interpolatedPosition',
                                            clock' - POSITION_REFRESH_INTERVAL)]_vars

\* a sample was recorded in EquinoxJNow mode and then queried
C9_Witness ==
    /\ equinox = "EquinoxJNow"
    /\ Len(interpolatedPosition) = 1
    /\ query.done

\* C10: a position query evaluates the interpolation at clock minus
\* POSITION_REFRESH_INTERVAL, changes no sample, no poll time and no driver
\* state, and a second query at the same clock value with no poll in
\* between returns the same result.
C10_QueryIsPure ==
    [][(query'.done /\ query' # query) =>
         /\ query'.result = InterpolatedGet(interpolatedPosition,
                                            clock - POSITION_REFRESH_INTERVAL)
         /\ query.done => query'.result = query.result
         /\ UNCHANGED <<pc, op, driver, equinox, dev, clock, timeToGetPosition,
                        interpolatedPosition, localVars, opCalls, nullAccess,
                        ascomError, coordReads, sampleNows>>]_vars

\* a query has returned a direction interpolated between two samples
C10_Witness ==
    /\ query.done
    /\ Len(interpolatedPosition) = 2
    /\ query.result # interpolatedPosition[1].pos
    /\ query.result # interpolatedPosition[2].pos

\* C11: over the lifetime of one adapter the ascomError signal is emitted
\* at most once.
C11_OneShotFault == Len(ascomError) <= 1

\* after the one emission a poll has run and returned without reaching the driver
C11_Witness ==
    /\ Len(ascomError) = 1
    /\ op = "performCommunication"
    /\ pc = "ret"
    /\ opCalls = <<>>
    /\ ~nullAccess

\* the constructor has read AtPark true and CanUnpark false from the driver
CtorFoundParkedUnparkable ==
    /\ op = "ctor"
    /\ Reads("get:AtPark", TRUE)
    /\ Reads("get:CanUnpark", FALSE)

\* C12: once the constructor has read AtPark true and CanUnpark false the
\* driver is released, and from then on isInitialized() and
\* prepareCommunication() are false and no poll or goto reaches the driver.
C12_ParkedAtConstructionIsFatal ==
    [](CtorFoundParkedUnparkable =>
         [](/\ ~isInitialized
            /\ ~prepareCommunication
            /\ op \in {"performCommunication", "telescopeGoto", "isConnected"}
                  => (opCalls = <<>> /\ ~nullAccess)))

\* the constructor of a connected, parked, unparkable device has finished
C12_Witness ==
    /\ CtorFoundParkedUnparkable
    /\ Reads("get:Connected", TRUE)
    /\ ~Faulted
    /\ pc = "ret"

\* C13: isConnected() returns false on an uninitialized adapter without
\* touching the driver, and otherwise the value the driver's Connected
\* property has at that moment.
C13_IsConnectedIsLive ==
    (op = "isConnected" /\ pc = "ret") =>
        /\ isInitialized => (returned = dev.connected /\ Reads("get:Connected", dev.connected))
        /\ opCalls = <<>> => (~isInitialized /\ returned = FALSE)

\* isConnected() has returned false on an initialized adapter whose link is down
C13_Witness ==
    /\ op = "isConnected"
    /\ pc = "ret"
    /\ isInitialized
    /\ returned = FALSE
    /\ ~dev.connected

\* positions of performCommunication up to and including its due check
BeforeDueCheck == {"p_isConnected", "p_setConnected", "p_getConnected", "p_parked", "p_now"}

\* C14 as stated: a performCommunication called before the next scheduled
\* poll time makes no driver access at all, Connected and AtPark included.
C14_NotDueTouchesNothing ==
    (op = "performCommunication" /\ pc \in BeforeDueCheck /\ clock < timeToGetPosition)
        => opCalls = <<>>

\* C14: a performCommunication called before the next scheduled poll time
\* reads no coordinates, records no sample and leaves the scheduled poll
\* time unchanged.
C14_NotDueReadsNoPosition ==
    [][(/\ op' = "performCommunication"
        /\ pc \in BeforeDueCheck \cup {"idle"}
        /\ clock < timeToGetPosition) =>
          /\ pc' \notin {"p_ra", "p_dec", "p_add"}
          /\ UNCHANGED <<timeToGetPosition, interpolatedPosition, coordReads, sampleNows>>
          /\ \A i \in 1..Len(opCalls') :
                opCalls'[i].c \notin {"get:RightAscension", "get:Declination"}]_vars

\* after a first sample, a poll that was not yet due has gone through its
\* Connected and AtPark reads and returned
C14_Witness ==
    /\ op = "performCommunication"
    /\ pc = "ret"
    /\ Len(sampleNows) = 1
    /\ now = clock
    /\ clock < timeToGetPosition
    /\ timeToGetPosition # clock + POSITION_REFRESH_INTERVAL
    /\ Reads("get:AtPark", FALSE)

\* C15 as stated: a performCommunication that finds the device parked
\* returns with the poll either not due or rescheduled to
\* now + POSITION_REFRESH_INTERVAL.
C15_ParkedReschedules ==
    (op = "performCommunication" /\ pc = "ret" /\ ~Faulted /\ Reads("get:AtPark", TRUE)) =>
        \/ timeToGetPosition = clock + POSITION_REFRESH_INTERVAL
        \/ clock < timeToGetPosition

\* C15: a performCommunication to which the driver reports AtPark true
\* returns at once, records no sample and leaves the scheduled poll time
\* unchanged.
C15_ParkedSkipsWithoutRescheduling ==
    [][(/\ pc = "p_parked"
        /\ \E i \in 1..Len(opCalls') :
              opCalls'[i].c = "get:AtPark" /\ opCalls'[i].v = TRUE) =>
          /\ pc' = "ret"
          /\ UNCHANGED <<timeToGetPosition, interpolatedPosition, coordReads, sampleNows>>]_vars

\* a due poll has found the device parked and returned, the poll still due
C15_Witness ==
    /\ op = "performCommunication"
    /\ pc = "ret"
    /\ ~Faulted
    /\ Reads("get:AtPark", TRUE)
    /\ clock >= timeToGetPosition

\* C16: a telescopeGoto issues at most one slew call: the asynchronous one
\* only after CanSlewAsync read true, the synchronous one only after
\* CanSlewAsync read false and CanSlew read true, and when no fault
\* intervenes the call that the flags select is issued before it returns.
C16_AtMostOneSlew ==
    op = "telescopeGoto" =>
        /\ Cardinality(SlewCalls) <= 1
        /\ Pos("call:SlewToCoordinatesAsync") # {} => Reads("get:CanSlewAsync", TRUE)
        /\ Pos("call:SlewToCoordinates") # {} =>
              (Reads("get:CanSlewAsync", FALSE) /\ Reads("get:CanSlew", TRUE))
        /\ (pc = "ret" /\ ~Faulted /\ Reads("get:CanSlewAsync", TRUE)) =>
              Pos("call:SlewToCoordinatesAsync") # {}
        /\ (pc = "ret" /\ ~Faulted /\ Reads("get:CanSlew", TRUE)) =>
              Pos("call:SlewToCoordinates") # {}
        /\ (pc = "ret" /\ Reads("get:CanSlew", FALSE)) => SlewCalls = {}

\* a goto on a device without asynchronous slew has issued the synchronous one
C16_Witness ==
    /\ op = "telescopeGoto"
    /\ pc = "ret"
    /\ Reads("get:CanSlewAsync", FALSE)
    /\ Pos("call:SlewToCoordinates") # {}

\* C17: a telescopeGoto issues a slew call only after a Tracking read of
\* that call returned true; if Tracking read false and CanSetTracking
\* read false no slew call is issued.
C17_SlewOnlyWhenTracking ==
    op = "telescopeGoto" =>
        /\ \A i \in SlewCalls :
              \E j \in Pos("get:Tracking") : j < i /\ opCalls[j].v = TRUE
        /\ Reads("get:CanSetTracking", FALSE) => SlewCalls = {}

\* a goto has set Tracking, read it back false and returned without a slew
C17_Witness ==
    /\ op = "telescopeGoto"
    /\ pc = "ret"
    /\ ~Faulted
    /\ Pos("set:Tracking") # {}
    /\ ~Reads("get:Tracking", TRUE)
    /\ SlewCalls = {}

\* the running poll or goto found the session initialized and not connected
DisconnectedCall ==
    /\ op \in {"performCommunication", "telescopeGoto"}
    /\ Len(opCalls) >= 1
    /\ opCalls[1].c = "get:Connected"
    /\ opCalls[1].v = FALSE

\* C18: a poll or goto on an initialized, disconnected session sets
\* Connected to true and reads it back before any other access; if it
\* still reads false the call ends there, with no further access, and
\* the session stays initialized.
C18_ReconnectFirst ==
    DisconnectedCall =>
        /\ Len(opCalls) >= 2 => opCalls[2].c = "set:Connected"
        /\ Len(opCalls) >= 3 => opCalls[3].c = "get:Connected"
        /\ (pc = "ret" /\ ~Faulted) => Len(opCalls) >= 3
        /\ (Len(opCalls) >= 3 /\ opCalls[3].v = FALSE) =>
              /\ Len(opCalls) = 3
              /\ pc = "ret"
              /\ ~Faulted => isInitialized

\* a poll whose connection attempt failed has returned, the session still initialized
C18_Witness ==
    /\ DisconnectedCall
    /\ op = "performCommunication"
    /\ pc = "ret"
    /\ isInitialized
    /\ Len(opCalls) = 3
    /\ opCalls[3].v = FALSE

\* C19: after the constructor has created its driver object nothing makes
\* an uninitialized adapter initialized again, whatever released the
\* driver, and prepareCommunication() returns what isInitialized() returns.
C19_UninitializedIsAbsorbing ==
    /\ [](prepareCommunication <=> isInitialized)
    /\ [][(pc # "c_setControl" /\ ~isInitialized) => ~isInitialized']_vars

\* a poll on an adapter whose driver could not be instantiated has returned
C19_Witness ==
    /\ driver = "nullobj"
    /\ op = "performCommunication"
    /\ pc = "ret"
    /\ opCalls = <<>>

\* C20: the constructor, which runs at clock 0, schedules the first poll
\* POSITION_REFRESH_INTERVAL later, and no coordinate read and no sample
\* happens before that instant.
C20_FirstPollAfterOneInterval ==
    /\ (op = "ctor" /\ pc = "ret" /\ isInitialized) =>
          timeToGetPosition = clock + POSITION_REFRESH_INTERVAL
    /\ \A i \in 1..Len(coordReads) : coordReads[i] >= POSITION_REFRESH_INTERVAL
    /\ \A i \in 1..Len(sampleNows) : sampleNows[i] >= POSITION_REFRESH_INTERVAL
    /\ \A i \in 1..Len(interpolatedPosition) :
          interpolatedPosition[i].clientTime >= POSITION_REFRESH_INTERVAL

\* a poll made before the first scheduled time has passed its park check
\* and returned without reading the coordinates
C20_Witness ==
    /\ op = "performCommunication"
    /\ pc = "ret"
    /\ now = clock
    /\ 0 < clock
    /\ clock < POSITION_REFRESH_INTERVAL
    /\ Reads("get:AtPark", FALSE)
    /\ coordReads = <<>>
    /\ interpolatedPosition = <<>>

====
